---- MODULE Spec2Model ----
(***************************************************************************)
(* A model of export.py: the Stockholm high-school export.                 *)
(*                                                                         *)
(* Four specifications share the variables below.                          *)
(*   Spec / FairSpec  one run of main() and export_schools(): every HTTP   *)
(*                    request is one step whose response is chosen by the  *)
(*                    environment.                                         *)
(*   SpecRate         the two clients' _rate_limit under an arbitrary      *)
(*                    interleaving of calls and of passing time.           *)
(*   SpecLookup       ResRobotClient.lookup_stop as a function of the      *)
(*                    HTTP response, over all bounded responses.           *)
(*   SpecDuration     parse_duration as a function of the duration token,  *)
(*                    over all bounded tokens.                             *)
(*                                                                         *)
(* Encodings.  Python's None and dicts: a dict is a record with the set of *)
(* keys it holds (keys); NONE is the record tagged "None".  Optional[int]  *)
(* is a sequence: << >> for None, <<n>> for the integer n.  Stop names and *)
(* duration tokens are sequences of one-character strings, so substring    *)
(* search, lower() and the regular expression are computed, not assumed.   *)
(* Time is counted in ticks of 0.1 s.                                      *)
(***************************************************************************)
EXTENDS Integers, Sequences, FiniteSets, TLC

VARIABLES
    pc,                \* the position of the run in main / export_schools
    school_limit,      \* config.school_limit
    origin_id,         \* export_schools: origin_id
    schools,           \* export_schools: schools
    i,                 \* index (from 1) of the school being processed
    j,                 \* index (from 1) of the program being fetched
    travel_time_cache, \* export_schools: travel_time_cache
    stop,              \* export_schools: stop
    rows,              \* export_schools: rows
    output,            \* the output file: << >> or <<the rows written>>
    exit_status,       \* << >> while running, <<n>> once the process ended
    now,               \* time.time()
    rr_last_request,   \* ResRobotClient.last_request
    ed_last_request,   \* EdniaClient.last_request
    \* what an observer of the run records
    sent,              \* the request sent last
    response,          \* how it ended: "ok" or "error"
    calls,             \* requests sent so far, per provider
    resolutions,       \* find_school_stop invocations so far, per school id
    trips,             \* get_travel_time requests so far, per school id
    queries,           \* the lookups issued for the school being processed
    travel,            \* what the latest get_travel_time returned
    page,              \* the latest get_program_page result
    paths_seen,        \* study paths of the non-empty pages fetched so far
    rr_prev,           \* the timestamp ResRobotClient recorded before the last
    ed_prev,           \* the same of EdniaClient
    slept,             \* the sleep of each client's latest _rate_limit
    result,            \* what the latest lookup_stop returned
    reply,             \* SpecLookup: the response handed to lookup_stop;
                       \* SpecDuration: the token handed to parse_duration
    listed,            \* what get_schools returned, before the limit
    api_key            \* main: api_key

vars == <<pc, school_limit, origin_id, schools, i, j, travel_time_cache,
          stop, rows, output, exit_status, now, rr_last_request,
          ed_last_request, sent, response, calls, resolutions, trips,
          queries, travel, page, paths_seen, rr_prev, ed_prev, slept, result,
          reply,
                   listed, api_key>>

(***************************************************************************)
(* Bounds of the model.                                                    *)
(***************************************************************************)
MaxPaths == 2
MaxLimit == 1
MaxCandidates == 3
MaxRunCandidates == 1
StartTime == 20
MaxElapsed == 16
MaxOversleep == 1
MaxCalls == 3
MaxTail == 4

(***************************************************************************)
(* Config defaults (ticks of 0.1 s).                                       *)
(***************************************************************************)
delay_ednia == 1
delay_resrobot == 15

(***************************************************************************)
(* Python values.                                                          *)
(***************************************************************************)
NONE == [tag |-> "None", keys |-> {}, name |-> << >>, extId |-> ""]

Dict(ks, n, e) == [tag |-> "dict", keys |-> ks, name |-> n, extId |-> e]

EmptyDict == Dict({}, << >>, "")

\* bool(x) of an Optional[dict]: None and the empty dict are false.
Truthy(d) == d.tag = "dict" /\ d.keys # {}

\* stop.get("name", "")
GetName(d) == IF "name" \in d.keys THEN d.name ELSE << >>

\* stop.get("extId"): the empty string stands for None
GetExtId(d) == IF "extId" \in d.keys THEN d.extId ELSE ""

Min(S) == CHOOSE m \in S : \A n \in S : m <= n

(***************************************************************************)
(* Strings as sequences of characters.                                     *)
(***************************************************************************)
UpperCase == <<"A","B","C","D","E","F","G","H","I","J","K","L","M",
               "N","O","P","Q","R","S","T","U","V","W","X","Y","Z">>

LowerCase == <<"a","b","c","d","e","f","g","h","i","j","k","l","m",
               "n","o","p","q","r","s","t","u","v","w","x","y","z">>

LowerChar(c) ==
    IF \E k \in 1..Len(UpperCase) : UpperCase[k] = c
    THEN LowerCase[CHOOSE k \in 1..Len(UpperCase) : UpperCase[k] = c]
    ELSE c

\* str.lower()
Lower(s) == [k \in 1..Len(s) |-> LowerChar(s[k])]

\* needle in s
Contains(needle, s) ==
    \E k \in 0..(Len(s) - Len(needle)) :
        SubSeq(s, k + 1, k + Len(needle)) = needle

Str_Stockholm == <<"S","t","o","c","k","h","o","l","m">>

Str_stockholm == <<"s","t","o","c","k","h","o","l","m">>

(***************************************************************************)
(* parse_duration: re.match(r"PT(?:(\d+)H)?(?:(\d+)M)?", duration).        *)
(* re.match anchors the pattern at the start of the token only.            *)
(***************************************************************************)
Digits == <<"0","1","2","3","4","5","6","7","8","9">>

IsDigit(c) == \E k \in 1..10 : Digits[k] = c

DigitValue(c) == (CHOOSE k \in 1..10 : Digits[k] = c) - 1

\* the end of the longest run of digits of s that starts at position p
RECURSIVE DigitsEnd(_, _)
DigitsEnd(s, p) ==
    IF p <= Len(s) /\ IsDigit(s[p]) THEN DigitsEnd(s, p + 1) ELSE p

\* int() of the digits s[p..q-1]
RECURSIVE IntOf(_, _, _)
IntOf(s, p, q) ==
    IF p >= q THEN 0 ELSE IntOf(s, p, q - 1) * 10 + DigitValue(s[q - 1])

\* (?:(\d+)X)? at position p: the group's value and the position after it.
\* \d+ must be followed by the unit letter; a shorter run of digits is
\* followed by a digit, so backtracking never finds another match.
OptGroup(s, p, unit) ==
    LET q == DigitsEnd(s, p)
    IN  IF q > p /\ q <= Len(s) /\ s[q] = unit
        THEN [matched |-> TRUE, value |-> IntOf(s, p, q), next |-> q + 1]
        ELSE [matched |-> FALSE, value |-> 0, next |-> p]

\* the hours are added as if they were minutes
ParseDurationHoursAsMinutes(duration) ==
    IF duration = << >> THEN << >>
    ELSE IF ~(Len(duration) >= 2 /\ duration[1] = "P" /\ duration[2] = "T")
    THEN << >>
    ELSE LET h == OptGroup(duration, 3, "H")
             m == OptGroup(duration, h.next, "M")
         IN  <<h.value + m.value>>

\* duration is << >> for None or the empty string
parse_duration(duration) ==
    IF duration = << >> THEN << >>
    ELSE IF ~(Len(duration) >= 2 /\ duration[1] = "P" /\ duration[2] = "T")
    THEN << >>
    ELSE LET h == OptGroup(duration, 3, "H")
             m == OptGroup(duration, h.next, "M")
         IN  <<h.value * 60 + m.value>>

(***************************************************************************)
(* _rate_limit, the same code in both clients.  t is time.time() at entry, *)
(* over is how much longer than asked time.sleep() slept.                  *)
(***************************************************************************)
\* the timestamp is taken before the sleep instead of after it
RateLimitStampsBeforeSleep(last_request, delay, t, over) ==
    LET elapsed == t - last_request
        sleep == IF elapsed < delay THEN (delay - elapsed) + over ELSE 0
    IN  [slept |-> sleep, now |-> t + sleep, last_request |-> t]

_rate_limit(last_request, delay, t, over) ==
    LET elapsed == t - last_request
        sleep == IF elapsed < delay THEN (delay - elapsed) + over ELSE 0
    IN  [slept |-> sleep, now |-> t + sleep, last_request |-> t + sleep]

(***************************************************************************)
(* ResRobotClient.lookup_stop as a function of what http_get did.          *)
(* A response is [ok, locations]; ok = FALSE is a raised exception.  An    *)
(* entry of locations is [StopLocation |-> dict], NONE when the entry has  *)
(* no "StopLocation" key (a CoordLocation).                                *)
(***************************************************************************)
\* "Stockholm" in name or "stockholm" in name.lower()
IsStockholmName(name) ==
    Contains(Str_Stockholm, name) \/ Contains(Str_stockholm, Lower(name))

\* loc.get("StopLocation", {})
StopLocationOf(loc) ==
    IF loc.StopLocation = NONE THEN EmptyDict ELSE loc.StopLocation

lookup_stop(r) ==
    IF ~r.ok THEN NONE
    ELSE LET locations == r.locations
             hits == {k \in 1..Len(locations) :
                         IsStockholmName(GetName(StopLocationOf(locations[k])))}
         IN  IF hits # {} THEN StopLocationOf(locations[Min(hits)])
             ELSE IF Len(locations) > 0 THEN locations[1].StopLocation
             ELSE NONE

(***************************************************************************)
(* ResRobotClient.get_travel_time as a function of what http_get did.      *)
(* A response is [ok, trips]; a trip is its duration token, << >> when the *)
(* trip has no "duration".                                                 *)
(***************************************************************************)
get_travel_time(r) ==
    IF ~r.ok THEN << >>
    ELSE IF r.trips # << >> THEN parse_duration(r.trips[1])
    ELSE << >>

(***************************************************************************)
(* EdniaClient.get_program_page as a function of what http_get did.        *)
(* A response is [ok, programPage]; a page is [present, studyPaths].       *)
(***************************************************************************)
NoPage == [present |-> FALSE, studyPaths |-> << >>]

get_program_page(r) == IF ~r.ok THEN NoPage ELSE r.programPage

(***************************************************************************)
(* What the environment may answer.                                        *)
(***************************************************************************)
SeqUpTo(S, n) == UNION {[1..k -> S] : k \in 0..n}

Name_Solna == <<"S","o","l","n","a">>

Name_STOCKHOLM == <<"S","T","O","C","K","H","O","L","M"," ","C">>

Name_stockholms == <<"O","d","e","n","p","l","a","n"," ","(",
                     "S","t","o","c","k","h","o","l","m","s",")">>

\* --origin
origin_name == "Bjorkhagen"

\* entries of "stopLocationOrCoordLocation"
Candidates ==
    { [StopLocation |-> Dict({"name", "extId"}, Name_Solna, "740000759")],
      [StopLocation |-> Dict({"name", "extId"}, Name_STOCKHOLM, "740000001")],
      [StopLocation |-> Dict({"name", "extId"}, Name_stockholms, "740021665")],
      [StopLocation |-> Dict({"extId"}, << >>, "740098000")],
      [StopLocation |-> EmptyDict],
      [StopLocation |-> NONE] }

\* every response lookup_stop is checked on
LookupResponses ==
    {[ok |-> FALSE, locations |-> << >>]}
        \cup {[ok |-> TRUE, locations |-> l] :
                 l \in SeqUpTo(Candidates, MaxCandidates)}

Name_Bjorkhagen == <<"B","j","o","r","k","h","a","g","e","n">>

\* the entries the stop search answers with during a run: to the origin's
\* name its stop or an entry without a StopLocation, to the query for a
\* school one of two stops or an entry without a StopLocation
RunCandidates(query) ==
    IF query = origin_name
    THEN { [StopLocation |->
               Dict({"name", "extId"}, Name_Bjorkhagen, "740021654")],
           [StopLocation |-> NONE] }
    ELSE {c \in Candidates :
             \/ c.StopLocation = NONE
             \/ GetName(c.StopLocation) \in {Name_Solna, Name_STOCKHOLM}}

\* the responses of the stop search during a run
RunLookupResponses(query) ==
    {[ok |-> FALSE, locations |-> << >>]}
        \cup {[ok |-> TRUE, locations |-> l] :
                 l \in SeqUpTo(RunCandidates(query), MaxRunCandidates)}

Token_PT0M == <<"P","T","0","M">>

Token_PT1H5M == <<"P","T","1","H","5","M">>

Token_25 == <<"2","5">>

\* the responses of the trip planner during a run
TripResponses ==
    { [ok |-> FALSE, trips |-> << >>], [ok |-> TRUE, trips |-> << >>] }
        \cup {[ok |-> TRUE, trips |-> <<d>>] :
                 d \in {<< >>, Token_PT0M, Token_PT1H5M, Token_25}}

\* the responses of the program-page endpoint: a failure, no "programPage",
\* or a page with n study paths named 1..n
PageResponses ==
    { [ok |-> FALSE, programPage |-> NoPage],
      [ok |-> TRUE, programPage |-> NoPage] }
        \cup {[ok |-> TRUE,
               programPage |-> [present |-> TRUE,
                                studyPaths |-> [k \in 1..n |-> k]]] :
                 n \in 0..MaxPaths}

\* entries of the school listing
Kungsholmens ==
    [id |-> "s1", name |-> "Kungsholmens gymnasium",
     location |-> "Kungsholmen", programs |-> <<"TE", "NA">>]

KungsholmensAgain ==
    [id |-> "s1", name |-> "Kungsholmens gymnasium",
     location |-> "", programs |-> <<"NA">>]

Thorildsplans ==
    [id |-> "s2", name |-> "Thorildsplans gymnasium",
     location |-> "", programs |-> <<"EK">>]

\* the listings the "recommend" endpoint answers with: none, one and two
\* schools, the same id twice, two ids in both orders
Listings ==
    { << >>,
      <<Kungsholmens>>,
      <<Thorildsplans>>,
      <<Kungsholmens, KungsholmensAgain>>,
      <<KungsholmensAgain, Kungsholmens>>,
      <<Kungsholmens, Thorildsplans>>,
      <<Thorildsplans, Kungsholmens>> }

SchoolIds == {l[k].id : k \in 1..2, l \in {m \in Listings : Len(m) = 2}}

\* the responses of the "recommend" endpoint
SchoolsResponses ==
    {[ok |-> FALSE, result |-> << >>]}
        \cup {[ok |-> TRUE, result |-> l] : l \in Listings}

\* args.limit: << >> when --limit is not given
Limits == {<< >>} \cup {<<n>> : n \in 0..MaxLimit}

\* what RESROBOT_API_KEY is in .env and in the environment: "" covers both a
\* missing and an empty value (both are false in `a or b`)
ApiKeys == {"", "key"}

(***************************************************************************)
(* One run of main() and export_schools().                                 *)
(***************************************************************************)
NoReply == [ok |-> FALSE, locations |-> << >>]

Init ==
    /\ pc = "main"
    /\ school_limit = << >>
    /\ origin_id = ""
    /\ schools = << >>
    /\ i = 0
    /\ j = 0
    /\ travel_time_cache = << >>
    /\ stop = NONE
    /\ rows = << >>
    /\ output = << >>
    /\ exit_status = << >>
    /\ now = StartTime
    /\ rr_last_request = 0
    /\ ed_last_request = 0
    /\ sent = [api |-> "", args |-> << >>]
    /\ response = ""
    /\ calls = [resrobot |-> 0, ednia |-> 0]
    /\ resolutions = [id \in SchoolIds |-> 0]
    /\ trips = [id \in SchoolIds |-> 0]
    /\ queries = << >>
    /\ travel = << >>
    /\ page = NoPage
    /\ paths_seen = 0
    /\ rr_prev = 0
    /\ ed_prev = 0
    /\ slept = [resrobot |-> 0, ednia |-> 0]
    /\ reply = NoReply
    /\ result = NONE
    /\ listed = << >>
    /\ api_key = ""

\* ResRobotClient._rate_limit; over: the oversleep of time.sleep
ResRobotRateLimit(over) ==
    LET r == _rate_limit(rr_last_request, delay_resrobot, now, over)
    IN  /\ now' = r.now
        /\ rr_last_request' = r.last_request
        /\ rr_prev' = rr_last_request
        /\ slept' = [slept EXCEPT !.resrobot = r.slept]
        /\ calls' = [calls EXCEPT !.resrobot = @ + 1]
        /\ UNCHANGED <<ed_last_request, ed_prev>>

\* one timestamp shared by the two clients
EdniaRateLimitShared(over) ==
    LET r == _rate_limit(rr_last_request, delay_ednia, now, over)
    IN  /\ now' = r.now
        /\ rr_last_request' = r.last_request
        /\ ed_last_request' = r.last_request
        /\ ed_prev' = ed_last_request
        /\ slept' = [slept EXCEPT !.ednia = r.slept]
        /\ calls' = [calls EXCEPT !.ednia = @ + 1]
        /\ UNCHANGED rr_prev

\* EdniaClient._rate_limit
EdniaRateLimit(over) ==
    LET r == _rate_limit(ed_last_request, delay_ednia, now, over)
    IN  /\ now' = r.now
        /\ ed_last_request' = r.last_request
        /\ ed_prev' = ed_last_request
        /\ slept' = [slept EXCEPT !.ednia = r.slept]
        /\ calls' = [calls EXCEPT !.ednia = @ + 1]
        /\ UNCHANGED <<rr_last_request, rr_prev>>

\* A request of the run through the transport-directory client.  During a
\* run the clock is advanced by the sleeps alone: requests and the code
\* between them take no time, which leaves the limiter as the only source
\* of spacing (SpecRate lets any time pass).
ResRobotRequest(api, args, ok) ==
    /\ ResRobotRateLimit(0)
    /\ sent' = [api |-> api, args |-> args]
    /\ response' = IF ok THEN "ok" ELSE "error"

\* A request of the run through the school-directory client.
EdniaRequest(api, args, ok) ==
    /\ EdniaRateLimit(0)
    /\ sent' = [api |-> api, args |-> args]
    /\ response' = IF ok THEN "ok" ELSE "error"

NoRequest ==
    UNCHANGED <<now, rr_last_request, ed_last_request, rr_prev, ed_prev,
                slept, calls, sent, response>>

\* get_program_page without its try/except
RaisesOnPage(api, ok) == ~ok /\ api \in {"recommend", "getProgramPage"}

\* get_travel_time without its try/except
RaisesOnTrip(api, ok) == ~ok /\ api \in {"recommend", "trip"}

\* Whether a failed request raises out of the client method: lookup_stop
\* (lines 110, 126), get_travel_time (138, 145) and get_program_page (198,
\* 201) catch Exception; get_schools (line 181) does not.
Raises(api, ok) == ~ok /\ api = "recommend"

\* An exception nobody catches leaves export_schools and main: the
\* interpreter prints the traceback and exits with status 1.
Uncaught ==
    /\ pc' = "raised"
    /\ exit_status' = <<1>>

\* the test of line 365 dropped: the run goes on without a key
KeyMissingNever(key) == FALSE

\* line 365: not api_key
KeyMissing(key) == key = ""

\* main(), lines 360-376: the arguments and the access key
Main ==
    /\ pc = "main"
    /\ \E limit \in Limits, dotenv \in ApiKeys, environ \in ApiKeys :
          /\ api_key' = IF dotenv # "" THEN dotenv ELSE environ
          /\ IF KeyMissing(api_key')
             THEN /\ pc' = "no_key"
                  /\ exit_status' = <<1>>
                  /\ UNCHANGED school_limit
             ELSE /\ pc' = "phase1"
                  /\ school_limit' = limit
                  /\ UNCHANGED exit_status
    /\ NoRequest
    /\ UNCHANGED <<origin_id, schools, i, j, travel_time_cache, stop, rows,
                   output, resolutions, trips, queries, travel, page,
                   paths_seen, reply, result, listed>>

\* the test of line 241 without its `not`
OriginMissingInverted(origin_stop) == Truthy(origin_stop)

\* line 241: not origin_stop
OriginMissing(origin_stop) == ~Truthy(origin_stop)

\* Phase 1, lines 238-247
ResolveOrigin ==
    /\ pc = "phase1"
    /\ \E r \in RunLookupResponses(origin_name) :
          LET origin_stop == lookup_stop(r)
          IN  /\ ResRobotRequest("location.name", <<origin_name>>, r.ok)
              /\ IF Raises("location.name", r.ok)
                 THEN /\ Uncaught
                      /\ UNCHANGED <<origin_id, result>>
                 ELSE /\ result' = origin_stop
                      /\ IF OriginMissing(origin_stop)
                         THEN /\ pc' = "no_origin"
                              /\ exit_status' = <<1>>
                              /\ UNCHANGED origin_id
                         ELSE /\ pc' = "phase2"
                              /\ origin_id' = GetExtId(origin_stop)
                              /\ UNCHANGED exit_status
    /\ UNCHANGED <<school_limit, schools, i, j, travel_time_cache, stop, rows,
                   output, resolutions, trips, queries, travel, page,
                   paths_seen, reply,
                   listed, api_key>>

\* schools[:n]
Slice(s, n) ==
    IF n >= 0 THEN SubSeq(s, 1, Min({n, Len(s)}))
    ELSE IF Len(s) + n > 0 THEN SubSeq(s, 1, Len(s) + n)
    ELSE << >>

\* lines 252-253: `if config.school_limit:` is false for None and for 0
ApplyLimit(s, limit) ==
    IF limit # << >> /\ limit[1] # 0 THEN Slice(s, limit[1]) ELSE s

\* Phase 2, lines 249-254
FetchSchools ==
    /\ pc = "phase2"
    /\ \E r \in SchoolsResponses :
          /\ EdniaRequest("recommend", <<"stockholm">>, r.ok)
          /\ IF Raises("recommend", r.ok)
             THEN /\ Uncaught
                  /\ UNCHANGED <<schools, i, listed>>
             ELSE /\ pc' = "loop"
                  /\ listed' = r.result
                  /\ schools' = ApplyLimit(r.result, school_limit)
                  /\ i' = 1
                  /\ UNCHANGED exit_status
    /\ UNCHANGED <<school_limit, origin_id, j, travel_time_cache, stop, rows,
                   output, resolutions, trips, queries, travel, page,
                   paths_seen, reply, result, api_key>>

\* a cached None taken for a missing entry
InCacheWithValue(school_id, cache) ==
    school_id \in DOMAIN cache /\ cache[school_id] # << >>

\* line 271: school_id in travel_time_cache
InCache(school_id, cache) == school_id \in DOMAIN cache

\* travel_time_cache[school_id] = value
Store(cache, school_id, value) ==
    [k \in DOMAIN cache \cup {school_id} |->
        IF k = school_id THEN value ELSE cache[k]]

\* Phase 3, lines 261-271 and 283: the head of the loop over the schools
NextSchool ==
    /\ pc = "loop"
    /\ IF i > Len(schools)
       THEN /\ pc' = "phase4"
            /\ UNCHANGED <<j, resolutions, queries>>
       ELSE IF ~InCache(schools[i].id, travel_time_cache)
       THEN /\ pc' = "strategy1"
            /\ resolutions' = [resolutions EXCEPT ![schools[i].id] = @ + 1]
            /\ queries' = << >>
            /\ UNCHANGED j
       ELSE /\ pc' = "programs"
            /\ j' = 1
            /\ queries' = << >>
            /\ UNCHANGED resolutions
    /\ NoRequest
    /\ UNCHANGED <<school_limit, origin_id, schools, i, travel_time_cache,
                   stop, rows, output, exit_status, trips, travel, page,
                   paths_seen, reply, result,
                   listed, api_key>>

\* find_school_stop returned a stop: line 273 takes the branch of line 274
Found(st) ==
    /\ stop' = st
    /\ pc' = "trip"
    /\ UNCHANGED <<travel_time_cache, j>>

\* the travel time is requested although no stop was found
NotFoundAsksAnyway ==
    /\ stop' = NONE
    /\ pc' = "trip"
    /\ UNCHANGED <<travel_time_cache, j>>

\* find_school_stop returned None (line 226): lines 279-283
NotFound ==
    /\ stop' = NONE
    /\ travel_time_cache' = Store(travel_time_cache, schools[i].id, << >>)
    /\ pc' = "programs"
    /\ j' = 1

\* no return on the first success: the later variants are still issued
StrategyKeepsGoing(query, r, otherwise) ==
    LET st == lookup_stop(r)
    IN  /\ ResRobotRequest("location.name", <<query>>, r.ok)
        /\ IF Raises("location.name", r.ok)
           THEN /\ Uncaught
                /\ UNCHANGED <<stop, travel_time_cache, j, queries, result>>
           ELSE /\ result' = st
                /\ queries' =
                       Append(queries, [query |-> query, found |-> Truthy(st)])
                /\ UNCHANGED exit_status
                /\ IF otherwise # "return None"
                   THEN /\ pc' = otherwise
                        /\ UNCHANGED <<stop, travel_time_cache, j>>
                   ELSE IF Truthy(st) THEN Found(st) ELSE NotFound

\* one lookup of find_school_stop and the test that follows it; otherwise
\* is where the function goes on when the lookup found nothing
Strategy(query, r, otherwise) ==
    LET st == lookup_stop(r)
    IN  /\ ResRobotRequest("location.name", <<query>>, r.ok)
        /\ IF Raises("location.name", r.ok)
           THEN /\ Uncaught
                /\ UNCHANGED <<stop, travel_time_cache, j, queries, result>>
           ELSE /\ result' = st
                /\ queries' =
                       Append(queries, [query |-> query, found |-> Truthy(st)])
                /\ UNCHANGED exit_status
                /\ IF Truthy(st)
                   THEN Found(st)
                   ELSE IF otherwise = "return None"
                   THEN NotFound
                   ELSE /\ pc' = otherwise
                        /\ UNCHANGED <<stop, travel_time_cache, j>>

\* find_school_stop, lines 211-213
Strategy1 ==
    /\ pc = "strategy1"
    /\ \E r \in RunLookupResponses(schools[i].name) :
          Strategy(schools[i].name, r, "strategy2")
    /\ UNCHANGED <<school_limit, origin_id, schools, i, rows, output,
                   resolutions, trips, travel, page, paths_seen, reply,
                   listed, api_key>>

\* find_school_stop, lines 216-221 and 226
Strategy2 ==
    /\ pc = "strategy2"
    /\ \E r \in RunLookupResponses(schools[i].name \o " Stockholm") :
          Strategy(schools[i].name \o " Stockholm", r,
                   IF schools[i].location # ""
                   THEN "strategy3" ELSE "return None")
    /\ UNCHANGED <<school_limit, origin_id, schools, i, rows, output,
                   resolutions, trips, travel, page, paths_seen, reply,
                   listed, api_key>>

\* find_school_stop, lines 222-226
Strategy3 ==
    /\ pc = "strategy3"
    /\ \E r \in RunLookupResponses(schools[i].location \o " Stockholm") :
          Strategy(schools[i].location \o " Stockholm", r, "return None")
    /\ UNCHANGED <<school_limit, origin_id, schools, i, rows, output,
                   resolutions, trips, travel, page, paths_seen, reply,
                   listed, api_key>>

\* lines 133-136: the two stop ids of the trip request
trip_args(origin, dest_id) == <<origin, dest_id>>

\* lines 274-278 and 283.  stop is read for the last time at line 274: the
\* model forgets it, and the lookup result it came from, once it is used.
TravelTime ==
    /\ pc = "trip"
    /\ \E r \in TripResponses :
          LET dest_id == GetExtId(stop)
              travel_time == get_travel_time(r)
          IN  /\ ResRobotRequest("trip", trip_args(origin_id, dest_id), r.ok)
              /\ IF Raises("trip", r.ok)
                 THEN /\ Uncaught
                      /\ UNCHANGED <<travel_time_cache, travel, j, stop,
                                     result>>
                 ELSE /\ travel' = travel_time
                      /\ stop' = NONE
                      /\ result' = NONE
                      /\ travel_time_cache' =
                             Store(travel_time_cache, schools[i].id,
                                   travel_time)
                      /\ pc' = "programs"
                      /\ j' = 1
                      /\ UNCHANGED exit_status
    /\ trips' = [trips EXCEPT ![schools[i].id] = @ + 1]
    /\ UNCHANGED <<school_limit, origin_id, schools, i, rows, output,
                   resolutions, queries, page, paths_seen, reply,
                   listed, api_key>>

\* a csv field holding an Optional[int]
EmptyField == [empty |-> TRUE, value |-> 0]

\* `travel_time or ""`: 0 minutes is written as an empty field
TravelTimeFieldTruthy(travel_time) ==
    IF travel_time # << >> /\ travel_time[1] # 0
    THEN [empty |-> FALSE, value |-> travel_time[1]]
    ELSE EmptyField

\* line 311: travel_time if travel_time is not None else ""
TravelTimeField(travel_time) ==
    IF travel_time # << >>
    THEN [empty |-> FALSE, value |-> travel_time[1]]
    ELSE EmptyField

\* lines 299-312; the columns copied from the page's statistics and from the
\* study path's numbers are left out
Row(school, program, study_path, travel_time) ==
    [school_name |-> school.name,
     school_location |-> school.location,
     program |-> program,
     studyPath_name |-> study_path,
     travel_time_minutes |-> TravelTimeField(travel_time)]

\* one row per program instead of one per study path
RowsOfFirstPath(school, program, program_page, travel_time) ==
    IF ~program_page.present THEN << >>
    ELSE IF program_page.studyPaths = << >> THEN << >>
    ELSE <<Row(school, program, program_page.studyPaths[1], travel_time)>>

\* the study paths are taken last to first
RowsOfReversed(school, program, program_page, travel_time) ==
    IF ~program_page.present THEN << >>
    ELSE IF program_page.studyPaths = << >> THEN << >>
    ELSE LET n == Len(program_page.studyPaths)
         IN  [k \in 1..n |->
                 Row(school, program, program_page.studyPaths[n + 1 - k],
                     travel_time)]

\* lines 288-313: the rows one program page adds
RowsOf(school, program, program_page, travel_time) ==
    IF ~program_page.present THEN << >>
    ELSE IF program_page.studyPaths = << >> THEN << >>
    ELSE [k \in 1..Len(program_page.studyPaths) |->
             Row(school, program, program_page.studyPaths[k], travel_time)]

\* lines 286-313: one turn of the loop over the programs
FetchProgramPage ==
    /\ pc = "programs"
    /\ j <= Len(schools[i].programs)
    /\ \E r \in PageResponses :
          LET school == schools[i]
              program == school.programs[j]
              travel_time == travel_time_cache[school.id]
              program_page == get_program_page(r)
          IN  /\ EdniaRequest("getProgramPage",
                              <<school.id, program, "stockholm">>, r.ok)
              /\ paths_seen' = paths_seen
                     + (IF r.ok THEN Len(r.programPage.studyPaths) ELSE 0)
              /\ IF Raises("getProgramPage", r.ok)
                 THEN /\ Uncaught
                      /\ UNCHANGED <<page, rows, j>>
                 ELSE /\ page' = program_page
                      /\ rows' = rows \o RowsOf(school, program, program_page,
                                                travel_time)
                      /\ j' = j + 1
                      /\ UNCHANGED <<pc, exit_status>>
    /\ UNCHANGED <<school_limit, origin_id, schools, i, travel_time_cache,
                   stop, output, resolutions, trips, queries, travel, reply,
                   result, listed, api_key>>

\* the stop of the school is looked up again after its program pages
EndProgramsResolvesAgain ==
    /\ pc = "programs"
    /\ j > Len(schools[i].programs)
    /\ pc' = "strategy1"
    /\ NoRequest
    /\ UNCHANGED <<school_limit, origin_id, schools, i, j, travel_time_cache,
                   stop, rows, output, exit_status, resolutions, trips,
                   queries, travel, page, paths_seen, reply, result,
                   listed, api_key>>

\* line 286: the programs of the school are exhausted; line 261 again
EndPrograms ==
    /\ pc = "programs"
    /\ j > Len(schools[i].programs)
    /\ i' = i + 1
    /\ pc' = "loop"
    /\ NoRequest
    /\ UNCHANGED <<school_limit, origin_id, schools, j, travel_time_cache,
                   stop, rows, output, exit_status, resolutions, trips,
                   queries, travel, page, paths_seen, reply, result,
                   listed, api_key>>

\* the header is written and the rows are not
WriteCsvHeaderOnly ==
    /\ pc = "phase4"
    /\ output' = << << >> >>
    /\ exit_status' = <<0>>
    /\ pc' = "done"
    /\ NoRequest
    /\ UNCHANGED <<school_limit, origin_id, schools, i, j, travel_time_cache,
                   stop, rows, resolutions, trips, queries, travel, page,
                   paths_seen, reply, result,
                   listed, api_key>>

\* Phase 4, lines 315-337, and the return from main
WriteCsv ==
    /\ pc = "phase4"
    /\ output' = <<rows>>
    /\ exit_status' = <<0>>
    /\ pc' = "done"
    /\ NoRequest
    /\ UNCHANGED <<school_limit, origin_id, schools, i, j, travel_time_cache,
                   stop, rows, resolutions, trips, queries, travel, page,
                   paths_seen, reply, result,
                   listed, api_key>>

Next ==
    \/ Main
    \/ ResolveOrigin
    \/ FetchSchools
    \/ NextSchool
    \/ Strategy1
    \/ Strategy2
    \/ Strategy3
    \/ TravelTime
    \/ FetchProgramPage
    \/ EndPrograms
    \/ WriteCsv

Spec == Init /\ [][Next]_vars

\* The run is one sequential flow and every request returns or times out
\* (urlopen(..., timeout=30)): a step that can be taken is taken.
FairSpec == Spec /\ WF_vars(Next)

(***************************************************************************)
(* SpecRate: the two rate limiters alone.  Calls through either client     *)
(* come in any order, any amount of time passes between them, and a sleep  *)
(* may last longer than asked.  The clock does not run backwards.          *)
(***************************************************************************)
RateVars == <<pc, school_limit, origin_id, schools, i, j, travel_time_cache,
              stop, rows, output, exit_status, sent, response, resolutions,
              trips, queries, travel, page, paths_seen, reply, result,
                   listed, api_key>>

InitRate ==
    /\ pc = "rate"
    /\ school_limit = << >>
    /\ origin_id = ""
    /\ schools = << >>
    /\ i = 0
    /\ j = 0
    /\ travel_time_cache = << >>
    /\ stop = NONE
    /\ rows = << >>
    /\ output = << >>
    /\ exit_status = << >>
    /\ now = StartTime
    /\ rr_last_request = 0
    /\ ed_last_request = 0
    /\ sent = [api |-> "", args |-> << >>]
    /\ response = ""
    /\ calls = [resrobot |-> 0, ednia |-> 0]
    /\ resolutions = [id \in SchoolIds |-> 0]
    /\ trips = [id \in SchoolIds |-> 0]
    /\ queries = << >>
    /\ travel = << >>
    /\ page = NoPage
    /\ paths_seen = 0
    /\ rr_prev = 0
    /\ ed_prev = 0
    /\ slept = [resrobot |-> 0, ednia |-> 0]
    /\ reply = NoReply
    /\ result = NONE
    /\ listed = << >>
    /\ api_key = ""

\* time passes between two calls
Tick ==
    /\ pc = "rate"
    /\ now < StartTime + MaxElapsed
    /\ now' = now + 1
    /\ UNCHANGED <<rr_last_request, ed_last_request, rr_prev, ed_prev, slept,
                   calls>>
    /\ UNCHANGED RateVars

\* a call through the ResRobotClient: lookup_stop or get_travel_time
ResRobotCall ==
    /\ pc = "rate"
    /\ calls.resrobot < MaxCalls
    /\ \E over \in 0..MaxOversleep : ResRobotRateLimit(over)
    /\ UNCHANGED RateVars

\* a call through the EdniaClient: get_schools or get_program_page
EdniaCall ==
    /\ pc = "rate"
    /\ calls.ednia < MaxCalls
    /\ \E over \in 0..MaxOversleep : EdniaRateLimit(over)
    /\ UNCHANGED RateVars

NextRate == Tick \/ ResRobotCall \/ EdniaCall

SpecRate == InitRate /\ [][NextRate]_vars

(***************************************************************************)
(* SpecLookup: lookup_stop applied to every bounded response.              *)
(***************************************************************************)
LookupVars == <<school_limit, origin_id, schools, i, j, travel_time_cache,
                stop, rows, output, exit_status, now, rr_last_request,
                ed_last_request, sent, response, calls, resolutions, trips,
                queries, travel, page, paths_seen, rr_prev, ed_prev, slept,
                listed, api_key>>

InitLookup ==
    /\ pc = "lookup"
    /\ school_limit = << >>
    /\ origin_id = ""
    /\ schools = << >>
    /\ i = 0
    /\ j = 0
    /\ travel_time_cache = << >>
    /\ stop = NONE
    /\ rows = << >>
    /\ output = << >>
    /\ exit_status = << >>
    /\ now = StartTime
    /\ rr_last_request = 0
    /\ ed_last_request = 0
    /\ sent = [api |-> "", args |-> << >>]
    /\ response = ""
    /\ calls = [resrobot |-> 0, ednia |-> 0]
    /\ resolutions = [id \in SchoolIds |-> 0]
    /\ trips = [id \in SchoolIds |-> 0]
    /\ queries = << >>
    /\ travel = << >>
    /\ page = NoPage
    /\ paths_seen = 0
    /\ rr_prev = 0
    /\ ed_prev = 0
    /\ slept = [resrobot |-> 0, ednia |-> 0]
    /\ reply \in LookupResponses
    /\ result = NONE
    /\ listed = << >>
    /\ api_key = ""

\* lines 110-128 on the response drawn
LookupStop ==
    /\ pc = "lookup"
    /\ result' = lookup_stop(reply)
    /\ pc' = "returned"
    /\ UNCHANGED reply
    /\ UNCHANGED LookupVars

NextLookup == LookupStop

SpecLookup == InitLookup /\ [][NextLookup]_vars

(***************************************************************************)
(* SpecDuration: parse_duration applied to every bounded token: the        *)
(* strings of up to MaxTail characters, bare and after the prefix "PT".    *)
(***************************************************************************)
TokenChars == {"P", "T", "H", "M", "0", "1", "5", "X"}

Str_PT == <<"P","T">>

Tokens ==
    SeqUpTo(TokenChars, MaxTail)
        \cup {Str_PT \o t : t \in SeqUpTo(TokenChars, MaxTail)}

DurationVars == <<school_limit, origin_id, schools, i, j, travel_time_cache,
                  stop, rows, output, exit_status, now, rr_last_request,
                  ed_last_request, sent, response, calls, resolutions, trips,
                  queries, page, paths_seen, rr_prev, ed_prev, slept, result,
                  reply, listed, api_key>>

InitDuration ==
    /\ pc = "duration"
    /\ school_limit = << >>
    /\ origin_id = ""
    /\ schools = << >>
    /\ i = 0
    /\ j = 0
    /\ travel_time_cache = << >>
    /\ stop = NONE
    /\ rows = << >>
    /\ output = << >>
    /\ exit_status = << >>
    /\ now = StartTime
    /\ rr_last_request = 0
    /\ ed_last_request = 0
    /\ sent = [api |-> "", args |-> << >>]
    /\ response = ""
    /\ calls = [resrobot |-> 0, ednia |-> 0]
    /\ resolutions = [id \in SchoolIds |-> 0]
    /\ trips = [id \in SchoolIds |-> 0]
    /\ queries = << >>
    /\ travel = << >>
    /\ page = NoPage
    /\ paths_seen = 0
    /\ rr_prev = 0
    /\ ed_prev = 0
    /\ slept = [resrobot |-> 0, ednia |-> 0]
    /\ reply \in Tokens
    /\ result = NONE
    /\ listed = << >>
    /\ api_key = ""

\* lines 77-84 on the token drawn
ParseDuration ==
    /\ pc = "duration"
    /\ travel' = parse_duration(reply)
    /\ pc' = "parsed"
    /\ UNCHANGED DurationVars

NextDuration == ParseDuration

SpecDuration == InitDuration /\ [][NextDuration]_vars

(***************************************************************************)
(* The claims.                                                             *)
(***************************************************************************)
Phase3 == {"loop", "strategy1", "strategy2", "strategy3", "trip", "programs"}

\* a lookup result the callers cannot use: None or a dict without keys
Unusable(d) == d.tag = "None" \/ d.keys = {}

\* C1: through one client configured with delay d, the timestamps recorded
\* for two consecutive calls differ by at least d, and the first call
\* through the client does not sleep.
C1_RateLimitGap ==
    /\ calls.resrobot >= 2 => rr_last_request - rr_prev >= delay_resrobot
    /\ calls.ednia >= 2 => ed_last_request - ed_prev >= delay_ednia
    /\ calls.resrobot = 1 => slept.resrobot = 0
    /\ calls.ednia = 1 => slept.ednia = 0

\* a third transport call that had to sleep, after school-directory calls
C1_Witness ==
    /\ pc = "rate"
    /\ calls.resrobot = 3
    /\ calls.ednia >= 2
    /\ slept.resrobot > 0
    /\ slept.ednia > 0

\* C2: in one run, for every school id, find_school_stop is invoked at most
\* once and get_travel_time is requested at most once.
C2_OncePerSchoolId ==
    \A id \in SchoolIds : resolutions[id] <= 1 /\ trips[id] <= 1

\* a finished run over a listing that names the same id twice
C2_Witness ==
    /\ pc = "done"
    /\ Len(schools) = 2
    /\ schools[1].id = schools[2].id
    /\ resolutions[schools[1].id] = 1
    /\ trips[schools[1].id] = 1
    /\ Len(rows) > 2

\* the query variants of a school, in the order of section 4.4
Variants(school) ==
    <<school.name, school.name \o " Stockholm">>
        \o (IF school.location # ""
            THEN <<school.location \o " Stockholm">> ELSE << >>)

\* C3: the lookups issued for a school are a prefix of its variants (name,
\* name + " Stockholm", district + " Stockholm" when a district is given),
\* at most three; none is issued after one that found a stop; the stop
\* returned is the one of the first lookup that found one, and None is
\* returned exactly when every variant was issued and found none.
C3_StrategyOrder ==
    pc \in Phase3 \ {"loop"} =>
        LET v == Variants(schools[i])
            n == Len(queries)
        IN  /\ n <= 3
            /\ n <= Len(v)
            /\ \A k \in 1..n : queries[k].query = v[k]
            /\ \A k \in 1..(n - 1) : ~queries[k].found
            /\ pc = "strategy1" => n = 0
            /\ pc = "strategy2" => n = 1 /\ ~queries[1].found
            /\ pc = "strategy3" => n = 2 /\ ~queries[2].found
            /\ pc = "trip" =>
                   n >= 1 /\ queries[n].found /\ stop = result
                          /\ ~Unusable(stop)
            /\ (pc = "programs" /\ n > 0 /\ ~queries[n].found) =>
                   stop = NONE /\ n = Len(v) /\ Unusable(result)

\* the district variant was issued and found the stop
C3_Witness ==
    /\ pc = "trip"
    /\ Len(queries) = 3
    /\ queries[3].query = "Kungsholmen Stockholm"
    /\ sent.args = <<"Kungsholmen Stockholm">>

\* C4: when the lookup of the origin finds nothing, the process ends with a
\* non-zero status after exactly one transport-directory request and no
\* school-directory request, and nothing happens afterwards.
C4_OriginFatal ==
    /\ [](pc = "no_origin" =>
             /\ exit_status # << >>
             /\ exit_status[1] # 0
             /\ calls = [resrobot |-> 1, ednia |-> 0]
             /\ sent = [api |-> "location.name", args |-> <<origin_name>>]
             /\ output = << >>)
    /\ [][pc # "no_origin"]_vars
    /\ [][(pc = "phase1" /\ calls' # calls /\ Unusable(result'))
              => pc' = "no_origin"]_vars

\* the origin lookup failed as a request and the run ended
C4_Witness ==
    /\ pc = "no_origin"
    /\ response = "error"
    /\ exit_status = <<1>>

C6_ReachesPhase4 ==
    (pc = "loop") ~> (pc = "done" /\ output = <<rows>> /\ exit_status = <<0>>)

\* a finished run of two schools in which a travel-time request failed
C6_Witness ==
    /\ pc = "done"
    /\ output = <<rows>>
    /\ Len(schools) = 2
    /\ sent.api = "getProgramPage"
    /\ \E id \in DOMAIN travel_time_cache :
          trips[id] = 1 /\ travel_time_cache[id] = << >>

\* C7: the rows are as many as the study paths of the pages fetched; a page
\* that is absent or has no study path adds no row, and each study path of
\* a page adds one row with the school and the program code of the fetch.
C7_RowCount ==
    /\ [](Len(rows) = paths_seen)
    /\ [][(pc = "programs" /\ calls' # calls) =>
              LET n == IF page'.present THEN Len(page'.studyPaths) ELSE 0
              IN  /\ Len(rows') = Len(rows) + n
                  /\ SubSeq(rows', 1, Len(rows)) = rows
                  /\ \A k \in 1..n :
                        /\ rows'[Len(rows) + k].school_name = schools[i].name
                        /\ rows'[Len(rows) + k].program
                               = schools[i].programs[j]
                        /\ rows'[Len(rows) + k].studyPath_name
                               = page'.studyPaths[k]]_vars

\* section 8: a school with two programs, the first with two study paths and
\* the second with none, yields two rows of the first program
C7_Witness ==
    /\ pc = "phase4"
    /\ schools = <<Kungsholmens>>
    /\ Len(rows) = 2
    /\ \A k \in 1..2 : rows[k].program = "TE" /\ rows[k].studyPath_name = k
    /\ page.present
    /\ page.studyPaths = << >>

\* the entries of a response that carry a stop
IsCandidate(loc) == ~Unusable(loc.StopLocation)

\* "stockholm" in any letter-casing
NamesStockholm(loc) ==
    /\ IsCandidate(loc)
    /\ "name" \in loc.StopLocation.keys
    /\ Contains(Str_stockholm, Lower(loc.StopLocation.name))

\* C8: on a successful response lookup_stop returns the first candidate
\* whose name contains "stockholm" in any casing, and the first candidate
\* of the response when there is none.
C8_PrefersStockholm ==
    (pc = "returned" /\ reply.ok) =>
        LET l == reply.locations
            named == {k \in 1..Len(l) : NamesStockholm(l[k])}
            cands == {k \in 1..Len(l) : IsCandidate(l[k])}
        IN  IF named # {} THEN result = l[Min(named)].StopLocation
            ELSE cands # {} => result = l[Min(cands)].StopLocation

\* what holds of C8: a candidate named Stockholm is preferred, and without
\* one the result is whatever the first entry holds as its StopLocation
LookupSelection ==
    (pc = "returned" /\ reply.ok) =>
        LET l == reply.locations
            named == {k \in 1..Len(l) : NamesStockholm(l[k])}
        IN  IF named # {} THEN result = l[Min(named)].StopLocation
            ELSE IF l # << >> THEN result = l[1].StopLocation
            ELSE result = NONE

\* C9: when the request succeeds and the response holds a candidate,
\* lookup_stop returns a stop its callers treat as found.
C9_AbsentOnlyWithoutCandidates ==
    (pc = "returned" /\ reply.ok
        /\ \E k \in 1..Len(reply.locations) : IsCandidate(reply.locations[k]))
        => ~Unusable(result)

\* the school id of a row
IdOfName(name) ==
    (CHOOSE s \in {Kungsholmens, Thorildsplans} : s.name = name).id

\* C10: when find_school_stop returns None no travel-time request is sent
\* for the school, None is cached under its id and the rows of the school
\* have an empty travel_time_minutes; when it returns a stop, one request
\* from the origin id to the stop's id is sent and what it returns is cached.
C10_TravelTimeRequests ==
    /\ []((pc = "programs" /\ queries # << >>) =>
              LET id == schools[i].id
              IN  /\ id \in DOMAIN travel_time_cache
                  /\ IF queries[Len(queries)].found
                     THEN trips[id] = 1 /\ travel_time_cache[id] = travel
                     ELSE trips[id] = 0 /\ travel_time_cache[id] = << >>)
    /\ [](pc = "trip" => queries # << >> /\ queries[Len(queries)].found)
    /\ [](\A k \in 1..Len(rows) :
              trips[IdOfName(rows[k].school_name)] = 0
                  => rows[k].travel_time_minutes.empty)
    /\ [][(pc = "trip" /\ calls' # calls) =>
              /\ sent' = [api |-> "trip",
                          args |-> <<origin_id, GetExtId(stop)>>]
              /\ calls'.resrobot = calls.resrobot + 1
              /\ trips' = [trips EXCEPT ![schools[i].id] = 1]
              /\ travel_time_cache'[schools[i].id] = travel']_vars
    /\ [][\A id \in DOMAIN travel_time_cache : trips'[id] = trips[id]]_vars

\* a finished run: no stop for the first school, whose rows have the field
\* empty, and 65 minutes to the stop of the second
C10_Witness ==
    /\ pc = "done"
    /\ schools = <<Kungsholmens, Thorildsplans>>
    /\ trips = [id \in SchoolIds |-> IF id = "s1" THEN 0 ELSE 1]
    /\ travel_time_cache["s2"] = <<65>>
    /\ Len(rows) = 2
    /\ rows[1].school_name = Kungsholmens.name
    /\ rows[1].travel_time_minutes.empty
    /\ rows[2].travel_time_minutes = [empty |-> FALSE, value |-> 65]

\* the number a digit string writes in base ten
RECURSIVE Decimal(_)
Decimal(ds) ==
    IF ds = << >> THEN 0
    ELSE Decimal(SubSeq(ds, 1, Len(ds) - 1)) * 10 + DigitValue(ds[Len(ds)])

\* part is an optional component: nothing, or a count and the unit letter
IsComponent(part, unit) ==
    \/ part = << >>
    \/ /\ Len(part) >= 2
       /\ part[Len(part)] = unit
       /\ \A k \in 1..(Len(part) - 1) : IsDigit(part[k])

\* the count of a component, 0 when it is missing
CountOf(part) ==
    IF part = << >> THEN 0 ELSE Decimal(SubSeq(part, 1, Len(part) - 1))

\* the places where a token can be cut into "PT", hours and minutes
Cuts(token) ==
    {a \in 2..Len(token) :
        /\ SubSeq(token, 1, 2) = Str_PT
        /\ IsComponent(SubSeq(token, 3, a), "H")
        /\ IsComponent(SubSeq(token, a + 1, Len(token)), "M")}

\* the token is "PT", an optional hour count + "H", an optional minute
\* count + "M", and nothing else
FullMatch(token) == Cuts(token) # {}

\* C11: for every token that is "PT", an optional hour count with "H" and
\* an optional minute count with "M", parse_duration returns
\* hours * 60 + minutes, a missing component counting as 0.
C11_MinutesOfMatchingToken ==
    pc = "parsed" =>
        \A a \in Cuts(reply) :
            travel = <<CountOf(SubSeq(reply, 3, a)) * 60
                          + CountOf(SubSeq(reply, a + 1, Len(reply)))>>

\* "PT1H5M" was parsed to 65
C11_Witness ==
    /\ pc = "parsed"
    /\ reply = Token_PT1H5M
    /\ travel = <<65>>

\* C12: parse_duration returns None for every token that is empty or is
\* not exactly "PT", an optional hour count + "H" and an optional minute
\* count + "M".
C12_AbsentOnMismatch ==
    (pc = "parsed" /\ ~FullMatch(reply)) => travel = << >>

\* the schools the loop of phase 3 runs over, once the list is fetched
AfterListing == Phase3 \cup {"phase4", "done"}

\* C13: with a limit N configured, N = 0 included, phase 3 runs over the
\* first min(N, number of listed schools) schools of the listing, in its
\* order; without a limit it runs over every listed school.
C13_FirstNSchools ==
    pc \in AfterListing =>
        /\ i \in 1..(Len(schools) + 1)
        /\ schools =
               SubSeq(listed, 1,
                      IF school_limit = << >> THEN Len(listed)
                      ELSE Min({school_limit[1], Len(listed)}))

\* C14: when neither .env nor the environment holds a non-empty access
\* key, main ends the process with a non-zero status before export_schools
\* starts: no request is sent to either provider, and nothing follows.
C14_NoKeyFatal ==
    /\ [](api_key = "" => pc \in {"main", "no_key"})
    /\ [](pc = "no_key" =>
             /\ api_key = ""
             /\ exit_status # << >>
             /\ exit_status[1] # 0
             /\ calls = [resrobot |-> 0, ednia |-> 0]
             /\ sent = [api |-> "", args |-> << >>]
             /\ output = << >>)
    /\ []((calls.resrobot > 0 \/ calls.ednia > 0) => api_key # "")
    /\ [][pc # "no_key"]_vars

\* main ended the process for want of a key
C14_Witness ==
    /\ pc = "no_key"
    /\ api_key = ""
    /\ exit_status = <<1>>
    /\ calls = [resrobot |-> 0, ednia |-> 0]

\* the elements of a sequence
Range(f) == {f[k] : k \in DOMAIN f}

\* C15: requests are sent in forward phase order.  The lookup of the origin
\* is the first request; the school list is requested once, right after
\* it and before any request of phase 3; the stop lookups and the
\* travel-time request of a school are sent while its id is not cached,
\* its program pages once it is, and from the first program page of a
\* school on nothing but its program pages is requested until the loop
\* moves to the next school of the listing.
C15_ForwardOrder ==
    /\ [][calls' # calls =>
              CASE sent'.api = "location.name" /\ pc = "phase1" ->
                       /\ calls = [resrobot |-> 0, ednia |-> 0]
                       /\ sent'.args = <<origin_name>>
                [] sent'.api = "recommend" ->
                       /\ pc = "phase2"
                       /\ calls = [resrobot |-> 1, ednia |-> 0]
                       /\ sent.args = <<origin_name>>
                [] sent'.api = "location.name" /\ pc # "phase1" ->
                       /\ pc \in {"strategy1", "strategy2", "strategy3"}
                       /\ calls.ednia >= 1
                       /\ sent'.args[1] \in Range(Variants(schools[i]))
                       /\ schools[i].id \notin DOMAIN travel_time_cache
                [] sent'.api = "trip" ->
                       /\ pc = "trip"
                       /\ calls.ednia >= 1
                       /\ schools[i].id \notin DOMAIN travel_time_cache
                [] sent'.api = "getProgramPage" ->
                       /\ pc = "programs"
                       /\ calls.ednia >= 1
                       /\ sent'.args[1] = schools[i].id
                       /\ sent'.args[2] = schools[i].programs[j]
                       /\ schools[i].id \in DOMAIN travel_time_cache
                [] OTHER -> FALSE]_vars
    /\ [][(pc = "programs" /\ i' = i) => pc' = "programs"]_vars
    /\ [][i' # i =>
              \/ pc = "phase2" /\ i' = 1
              \/ pc = "programs" /\ pc' = "loop" /\ i' = i + 1]_vars
    /\ [][(pc = "programs" /\ calls' # calls) => j' = j + 1]_vars
    /\ [][DOMAIN travel_time_cache \subseteq DOMAIN travel_time_cache']_vars
    /\ [](pc \in AfterListing => calls.resrobot >= 1 /\ calls.ednia >= 1)

\* a finished run over two schools: for each a lookup that found a stop, a
\* travel-time request and its program pages
C15_Witness ==
    /\ pc = "done"
    /\ schools = <<Thorildsplans, Kungsholmens>>
    /\ trips = [id \in SchoolIds |-> 1]
    /\ calls.ednia = 4
    /\ calls.resrobot >= 5
    /\ sent.args = <<"s1", "NA", "stockholm">>

\* C16: a call through one client stamps that client's last_request and
\* leaves the other client's alone, and whether and how long it sleeps
\* depends on its own last_request only: a call that comes a full delay
\* after the client's previous one does not sleep, however recent the last
\* call through the other client is.
C16_LimitersIndependent ==
    /\ [][calls'.ednia # calls.ednia =>
              /\ calls'.resrobot = calls.resrobot
              /\ rr_last_request' = rr_last_request
              /\ ed_last_request' = now'
              /\ LET elapsed == now - ed_last_request
                 IN  IF elapsed >= delay_ednia
                     THEN now' = now /\ slept'.ednia = 0
                     ELSE slept'.ednia - (delay_ednia - elapsed)
                              \in 0..MaxOversleep]_vars
    /\ [][calls'.resrobot # calls.resrobot =>
              /\ calls'.ednia = calls.ednia
              /\ ed_last_request' = ed_last_request
              /\ rr_last_request' = now'
              /\ LET elapsed == now - rr_last_request
                 IN  IF elapsed >= delay_resrobot
                     THEN now' = now /\ slept'.resrobot = 0
                     ELSE slept'.resrobot - (delay_resrobot - elapsed)
                              \in 0..MaxOversleep]_vars

\* a school-directory call that did not sleep although the transport client
\* had been called less than its delay before
C16_Witness ==
    /\ pc = "rate"
    /\ calls.ednia >= 2
    /\ calls.resrobot >= 2
    /\ slept.ednia = 0
    /\ rr_last_request < ed_last_request
    /\ ed_prev < rr_last_request
    /\ ed_last_request - rr_last_request < delay_resrobot

\* where a row comes from: the place of its school in the list processed,
\* of its program in the school's program list and of its study path in
\* the page (the pages of the model name their study paths 1, 2, ...)
SchoolIndex(row) ==
    CHOOSE k \in 1..Len(schools) :
        /\ schools[k].name = row.school_name
        /\ schools[k].location = row.school_location

ProgramIndex(row) ==
    CHOOSE k \in 1..Len(schools[SchoolIndex(row)].programs) :
        schools[SchoolIndex(row)].programs[k] = row.program

Precedes(a, b) ==
    \/ SchoolIndex(a) < SchoolIndex(b)
    \/ /\ SchoolIndex(a) = SchoolIndex(b)
       /\ \/ ProgramIndex(a) < ProgramIndex(b)
          \/ /\ ProgramIndex(a) = ProgramIndex(b)
             /\ a.studyPath_name < b.studyPath_name

\* C17: the rows keep the order of their sources: by school in the order of
\* the listing, within a school by program in the order of its program
\* list, within a program by study path in the order of the page; rows are
\* only appended, and the file holds the rows in that order.
C17_RowsInSourceOrder ==
    /\ [](\A a, b \in 1..Len(rows) :
              a < b => Precedes(rows[a], rows[b]))
    /\ [](\A k \in 1..Len(rows) :
              \E n \in 1..Len(schools) :
                  /\ n <= i
                  /\ schools[n].name = rows[k].school_name
                  /\ schools[n].location = rows[k].school_location
                  /\ rows[k].program \in Range(schools[n].programs))
    /\ [][/\ Len(rows') >= Len(rows)
          /\ SubSeq(rows', 1, Len(rows)) = rows]_vars
    /\ [](output # << >> => output = <<rows>>)

\* a finished run whose rows come from two schools, two programs of the
\* second one and two study paths of one page
C17_Witness ==
    /\ pc = "done"
    /\ schools = <<Thorildsplans, Kungsholmens>>
    /\ Len(rows) = 4
    /\ output = <<rows>>
    /\ rows[1].program = "EK"
    /\ rows[2].program = "TE"
    /\ rows[3].program = "NA"
    /\ rows[3].studyPath_name = 1
    /\ rows[4].studyPath_name = 2

\* C18: an entry of the travel-time cache is never overwritten or removed;
\* the school being processed, and every school processed before it, has
\* an entry before its program pages are fetched; every row carries the
\* value cached for its school's id, a cached 0 as the number 0 and only a
\* cached None as the empty field.
C18_CacheWriteOnce ==
    /\ [][\A id \in DOMAIN travel_time_cache :
              /\ id \in DOMAIN travel_time_cache'
              /\ travel_time_cache'[id] = travel_time_cache[id]]_vars
    /\ [](pc = "programs" => schools[i].id \in DOMAIN travel_time_cache)
    /\ [](pc \in AfterListing =>
              \A n \in 1..Len(schools) :
                  n < i => schools[n].id \in DOMAIN travel_time_cache)
    /\ [](\A k \in 1..Len(rows) :
              LET id == IdOfName(rows[k].school_name)
              IN  /\ id \in DOMAIN travel_time_cache
                  /\ rows[k].travel_time_minutes.empty
                         = (travel_time_cache[id] = << >>)
                  /\ travel_time_cache[id] # << >> =>
                         rows[k].travel_time_minutes.value
                             = travel_time_cache[id][1])

\* a finished run over a listing that names one id twice, with 0 minutes
\* cached for it and written in the rows of both entries
C18_Witness ==
    /\ pc = "done"
    /\ schools = <<Kungsholmens, KungsholmensAgain>>
    /\ travel_time_cache["s1"] = <<0>>
    /\ Len(rows) >= 2
    /\ rows[1].school_location = "Kungsholmen"
    /\ rows[Len(rows)].school_location = ""
    /\ \A k \in 1..Len(rows) :
          rows[k].travel_time_minutes = [empty |-> FALSE, value |-> 0]

\* the ways a run ends without reaching phase 4
Aborted == {"no_key", "no_origin", "raised"}

====
